---------------------------- MODULE Spec2Model ----------------------------
(***************************************************************************)
(* The image plausibility validator of CropCare AI                         *)
(* (src/crop-detecter2-main/src/components/AnalysisResults.tsx, 222-292):  *)
(* validateImage, loadImageFromBlob and computeVegetationScore.            *)
(*                                                                         *)
(* JavaScript runs every handler to completion, so one action is one run   *)
(* of the code between two suspension points:                              *)
(*   ValidateImage  the call, up to `await loadImageFromBlob(blobUrl)`     *)
(*   ImgOnload      img.onload, then the rest of the try block and finally *)
(*   ImgOnerror     img.onerror, then the catch block and finally          *)
(*   Deliver        the caller's await receives the verdict                *)
(*                                                                         *)
(* Numbers.  A JavaScript number is an IEEE-754 double.  Every quotient    *)
(* the code forms (size / 2^20, greenish / total) is kept as the reduced   *)
(* fraction it rounds: two such quotients with denominators below 2^21     *)
(* differ by more than 2^-42, far more than the rounding error 2^-53, so   *)
(* the doubles are equal, or ordered, exactly as the fractions are (the    *)
(* literal 0.08 is the double nearest 2/25, the result of 2/25 itself).    *)
(***************************************************************************)
EXTENDS Integers, Sequences, FiniteSets, Bags, TLC

(***************************************************************************)
(* Program constants.                                                      *)
(***************************************************************************)
MAX_IMAGE_MB == 10
MIN_DIM == 256
\* MIN_VEG_SCORE = 0.08, the double nearest 8/100
MIN_VEG_SCORE_NUM == 8
MIN_VEG_SCORE_DEN == 100
maxSide == 512
\* the 10000 of `(data.length / 4) / 10000`
targetSamples == 10000
\* 1024 * 1024
BytesPerMB == 1024 * 1024

(***************************************************************************)
(* Bounds of the inputs explored.                                          *)
(***************************************************************************)
\* file sizes within SizeSlack bytes of the 10 MB limit
SizeSlack == 1
\* image sides within DimSlack pixels of MIN_DIM
DimSlack == 1
\* leading green runs within LeadSlack pixels of the run that scores 0.08
LeadSlack == 1

(***************************************************************************)
(* Fractions n/d, d > 0, reduced.                                          *)
(***************************************************************************)
RECURSIVE GCD(_, _)
GCD(a, b) == IF b = 0 THEN a ELSE GCD(b, a % b)

Frac(n, d) == LET g == GCD(n, d) IN [num |-> n \div g, den |-> d \div g]

FracLT(x, y) == x.num * y.den < y.num * x.den

FracGT(x, y) == FracLT(y, x)

\* Number.prototype.toFixed(1): the n with n/10 nearest x, the larger n on a
\* tie, printed with one decimal.
toFixed1(x) ==
    LET n == (20 * x.num + x.den) \div (2 * x.den)
    IN  ToString(n \div 10) \o "." \o ToString(n % 10)

\* String.prototype.startsWith
startsWith(s, p) == Len(s) >= Len(p) /\ SubSeq(s, 1, Len(p)) = p

(***************************************************************************)
(* State.                                                                  *)
(***************************************************************************)
VARIABLES
    pc,        \* where the validateImage call stands: idle, loading, done
    file,      \* the File passed to validateImage
    load,      \* the image load: none, pending, loaded (onload), error (onerror)
    img,       \* the HTMLImageElement loadImageFromBlob resolved with
    canvas,    \* what the canvas gave: ctx (FALSE for null) and the raster
    score,     \* what computeVegetationScore returned
    verdict,   \* the ImageValidation the call returns
    blobUrl,   \* the object URL: none, live, revoked
    created,   \* URL.createObjectURL calls of this validation
    revoked,   \* URL.revokeObjectURL calls of this validation
    loads,     \* loadImageFromBlob calls of this validation
    scored,    \* computeVegetationScore calls of this validation
    log        \* the checks this validation evaluated, in order

\* App (useState, lines 296-304), ImageUpload (line 17), and the
\* handleAnalyze calls under way
VARIABLES
    selectedImage,  \* File | null
    symptoms,       \* string
    cropType,       \* string
    analysis,       \* Disease | null
    isAnalyzing,    \* boolean
    currentStep,    \* 'home' | 'image' | 'text' | 'results'
    analysisMode,   \* 'image' | 'text' | null
    errorMsg,       \* string | null
    infoMsg,        \* string | null
    imagePreview,   \* ImageUpload: the data URL shown, string | null
    readers,        \* ImageUpload: FileReaders whose onload has not fired yet
    tasks,          \* the handleAnalyze calls, in the order they started
    lastReturn,     \* the handleAnalyze call that returned last, and what it did
    sinceReset,     \* resetAnalysis was the user's last action
    diseaseCall     \* a call of getRandomDisease: argument, draw and result

valVars ==
    <<pc, file, load, img, canvas, score, verdict, blobUrl, created, revoked,
      loads, scored, log>>

appVars ==
    <<selectedImage, symptoms, cropType, analysis, isAnalyzing, currentStep,
      analysisMode, errorMsg, infoMsg, imagePreview, readers, tasks, lastReturn,
      sinceReset>>

vars == <<valVars, appVars, diseaseCall>>

NoFile == [none |-> TRUE]
NoImg == [none |-> TRUE]
NoCanvas == [none |-> TRUE]
NoScore == [none |-> TRUE]
NoVerdict == [pending |-> TRUE]


(***************************************************************************)
(* computeVegetationScore: the canvas.                                     *)
(*                                                                         *)
(* canvas.width = max(1, floor(img.width * scale)) with                    *)
(* scale = min(1, 512 / max(img.width, img.height)), in doubles.  For a    *)
(* longer side m <= 512 the scale is exactly 1.  For m > 512 the scale is  *)
(* the double s nearest 512/m and the side is floor(fl(x * s)).  Write     *)
(* L = ceil(log2 m); s = Q / 2^(43+L) with Q the integer nearest           *)
(* 2^(52+L) / m, so m*Q = 2^(52+L) + D with D = m - R if Q was rounded up  *)
(* and D = -R if it was rounded down, R = 2^(52+L) mod m.  Then            *)
(* x * s = 512x/m + (512x/m) * D / 2^(52+L).  When m does not divide 512x  *)
(* the error cannot reach the next integer and the side is floor(512x/m).  *)
(* When it divides, a = 512x/m is a whole number: the product lies above a *)
(* (D >= 0) and the side is a, or it lies a*R / 2^(52+L) below a, and it   *)
(* rounds back to a exactly when that is at most half the spacing of the   *)
(* doubles below a, 2^(j-53) with 2^j < a <= 2^(j+1); else the side is     *)
(* a - 1 (a 561x561 image gets a 511x511 canvas).                          *)
(***************************************************************************)
Max(a, b) == IF a >= b THEN a ELSE b

Pow2(e) ==
    LET pow[k \in 0 .. Max(e, 0)] == IF k = 0 THEN 1 ELSE 2 * pow[k - 1]
    IN  pow[Max(e, 0)]

\* the least L >= l with 2^L >= m
CeilLog2From(m, l) ==
    CHOOSE r \in l .. 30 : Pow2(r) >= m /\ \A k \in l .. (r - 1) : Pow2(k) < m

CeilLog2(m) == CeilLog2From(m, 0)

\* 2^e mod m
Pow2Mod(e, m) ==
    LET pow[k \in 0 .. e] == IF k = 0 THEN 1 % m ELSE (2 * pow[k - 1]) % m
    IN  pow[e]

\* floor(fl(x * fl(512 / m))) for m > 512, 1 <= x <= m
scaledDown(x, m) ==
    LET a == (maxSide * x) \div m
        L == CeilLog2(m)
        R == Pow2Mod(52 + L, m)
        j == CeilLog2(a) - 1
        roundedBelow == /\ (maxSide * x) % m = 0
                        /\ R > 0
                        /\ 2 * R < m
                        /\ 2 * a * R > Pow2(L + j)
    IN  IF roundedBelow THEN a - 1 ELSE a

\* Math.max(1, Math.floor(x * scale)), scale = Math.min(1, maxSide / m)
canvasSide(x, m) ==
    Max(1, IF m <= maxSide THEN x ELSE scaledDown(x, m))

canvasWidth(image) == canvasSide(image.width, Max(image.width, image.height))

canvasHeight(image) == canvasSide(image.height, Max(image.width, image.height))

(***************************************************************************)
(* The raster ctx.getImageData returns for the canvas, an RGBA buffer of   *)
(* canvasWidth * canvasHeight pixels.  What drawImage paints is the        *)
(* browser's business; the rasters explored are a leading run of leadLen   *)
(* pixels of one colour followed by pixels of another.                     *)
(***************************************************************************)
RGBA(r, g, b, a) == <<r, g, b, a>>

Green == RGBA(0, 200, 0, 255)
Red == RGBA(200, 50, 50, 255)
Transparent == RGBA(0, 0, 0, 0)
\* alpha on either side of the `a < 50` test
GreenAlpha49 == RGBA(0, 200, 0, 49)
GreenAlpha50 == RGBA(0, 200, 0, 50)
\* green on either side of the `g > 60` floor
DarkGreen60 == RGBA(0, 60, 0, 255)
DarkGreen61 == RGBA(0, 61, 0, 255)
\* green on either side of the 10% margin over red: 110 = 1.1 * 100
Margin110 == RGBA(100, 110, 0, 255)
Margin111 == RGBA(100, 111, 0, 255)

Colours ==
    {Green, Red, Transparent, GreenAlpha49, GreenAlpha50,
     DarkGreen60, DarkGreen61, Margin110, Margin111}

Uniform(c) == [lead |-> c, leadLen |-> 0, rest |-> c]

\* data[i], i a byte index into the RGBA buffer
data(raster, i) ==
    LET px == IF i \div 4 < raster.leadLen THEN raster.lead ELSE raster.rest
    IN  px[(i % 4) + 1]

\* mutant: g >= 60
isGreen_floorInclusive(r, g, b) == 10 * g > 11 * r /\ 10 * g > 11 * b /\ g >= 60

\* mutant: the red channel is tested in place of the green one
isGreen_red(r, g, b) == 10 * r > 11 * g /\ 10 * r > 11 * b /\ r > 60

\* g > r * 1.1 && g > b * 1.1 && g > 60.  r * 1.1 is the double nearest
\* r * fl(1.1), fl(1.1) > 1.1: for whole g and r it is below g exactly when
\* 11 r < 10 g (if 11 r = 10 g it is g or above, otherwise it is at least
\* 0.1 away from g).
isGreen(r, g, b) == 10 * g > 11 * r /\ 10 * g > 11 * b /\ g > 60

\* mutant: Math.ceil in place of Math.floor
stepOf_ceil(dataLength) ==
    Max(1, ((dataLength \div 4) + targetSamples - 1) \div targetSamples)

\* Math.max(1, Math.floor((data.length / 4) / 10000))
stepOf(dataLength) == Max(1, (dataLength \div 4) \div targetSamples)

\* the values i takes in `for (let i = 0; i < data.length; i += 4 * step)`
sampleOffsets(dataLength) ==
    LET stride == 4 * stepOf(dataLength)
    IN  {stride * k : k \in 0 .. ((dataLength - 1) \div stride)}

\* mutant: no `if (a < 50) continue`
scoreOfData_noAlphaSkip(raster, dataLength) ==
    LET counted == sampleOffsets(dataLength)
        green == {i \in counted :
                     isGreen(data(raster, i), data(raster, i + 1), data(raster, i + 2))}
        total == Cardinality(counted)
        greenish == Cardinality(green)
    IN  IF total # 0 THEN Frac(greenish, total) ELSE Frac(0, 1)

\* the loop of lines 254-263 and the return of line 264: `total` counts the
\* samples with a >= 50, `greenish` those of them that are green.
scoreOfData(raster, dataLength) ==
    LET counted == {i \in sampleOffsets(dataLength) : data(raster, i + 3) >= 50}
        green == {i \in counted :
                     isGreen(data(raster, i), data(raster, i + 1), data(raster, i + 2))}
        total == Cardinality(counted)
        greenish == Cardinality(green)
    IN  IF total # 0 THEN Frac(greenish, total) ELSE Frac(0, 1)

\* computeVegetationScore(img); ctx is what canvas.getContext('2d') returned
\* (FALSE for null), raster what getImageData returned.
computeVegetationScore(image, ctx, raster) ==
    IF ~ctx THEN Frac(0, 1)
    ELSE CHOOSE vegetationScore \in
             {scoreOfData(raster, dataLength) :
                  dataLength \in {4 * canvasWidth(image) * canvasHeight(image)}} : TRUE

(***************************************************************************)
(* Inputs explored.                                                        *)
(***************************************************************************)
MaxBytes == MAX_IMAGE_MB * BytesPerMB

\* declared media types: File.type
MediaTypes ==
    {"image/png", "image/jpeg", "", "imag", "text/plain", "application/pdf",
     "video/image/png"}

\* File.size: 3 MB, 12.3 MB, 10.05 MB, and the sizes around 10 MB
FileSizes ==
    {3 * BytesPerMB, 12897485, 10538189}
        \cup {MaxBytes + d : d \in (0 - SizeSlack) .. SizeSlack}

Files == [type : MediaTypes, size : FileSizes]

\* naturalWidth x naturalHeight of a decoded image
ImgDims ==
    {<<120, 80>>, <<1, 1>>, <<5000, 100>>, <<300, 300>>, <<561, 561>>,
     <<5000, 5000>>, <<256, 131072>>, <<5000, 381>>}
        \cup {<<MIN_DIM + d, MIN_DIM + e>> :
                 d \in (0 - DimSlack) .. DimSlack, e \in {0 - DimSlack, 0, DimSlack}}

\* the shortest leading green run that gives `greens` green samples
leadFor(greens, image) ==
    (greens - 1) * stepOf(4 * canvasWidth(image) * canvasHeight(image)) + 1

\* a 300x300 image has 90000 pixels, sampled every 9th: 10000 samples, of
\* which 800 green is a score of exactly 0.08
ThresholdLead == leadFor(800, [width |-> 300, height |-> 300])

Rasters ==
    {Uniform(c) : c \in Colours}
        \cup {[lead |-> Green, leadLen |-> ThresholdLead - d, rest |-> Red] :
                 d \in 0 .. LeadSlack}
        \cup {[lead |-> Transparent, leadLen |-> ThresholdLead, rest |-> Green],
              [lead |-> Green, leadLen |-> ThresholdLead, rest |-> Transparent]}

(***************************************************************************)
(* validateImage.                                                          *)
(***************************************************************************)
NotAnImageReason == "File is not an image."

DecodeFailedReason == "Could not read the image. Try another file."

LowVegetationReason ==
    "Wrong image: looks unlike a crop/leaf. Please upload a clear leaf/plant photo."

\* `Image is too large (${sizeMB.toFixed(1)} MB). Max ${MAX_IMAGE_MB} MB.`
TooLargeReason(sizeMB) ==
    "Image is too large (" \o toFixed1(sizeMB) \o " MB). Max "
        \o ToString(MAX_IMAGE_MB) \o " MB."

\* `Image is too small (${img.width}x${img.height}). Minimum ${MIN_DIM}x${MIN_DIM}.`
TooSmallReason(image) ==
    "Image is too small (" \o ToString(image.width) \o "x" \o ToString(image.height)
        \o "). Minimum " \o ToString(MIN_DIM) \o "x" \o ToString(MIN_DIM) \o "."

\* file.size / (1024 * 1024)
sizeMBOf(f) == Frac(f.size, BytesPerMB)

MIN_VEG_SCORE == Frac(MIN_VEG_SCORE_NUM, MIN_VEG_SCORE_DEN)

\* mutant: the media type is searched for 'image/' anywhere (includes)
notAnImage_includes(f) ==
    ~\E k \in 1 .. Len(f.type) :
        k + 5 <= Len(f.type) /\ SubSeq(f.type, k, k + 5) = "image/"

\* !file.type.startsWith('image/')
notAnImage(f) == ~startsWith(f.type, "image/")

\* mutant: sizeMB >= MAX_IMAGE_MB
tooLarge_atLeast(f) == ~FracLT(sizeMBOf(f), Frac(MAX_IMAGE_MB, 1))

\* sizeMB > MAX_IMAGE_MB
tooLarge(f) == FracGT(sizeMBOf(f), Frac(MAX_IMAGE_MB, 1))

\* mutant: img.width < MIN_DIM && img.height < MIN_DIM
tooSmall_both(image) == image.width < MIN_DIM /\ image.height < MIN_DIM

\* img.width < MIN_DIM || img.height < MIN_DIM
tooSmall(image) == image.width < MIN_DIM \/ image.height < MIN_DIM

\* mutant: vegetationScore <= MIN_VEG_SCORE
lowVegetation_atMost(vegetationScore) == ~FracGT(vegetationScore, MIN_VEG_SCORE)

\* vegetationScore < MIN_VEG_SCORE
lowVegetation(vegetationScore) == FracLT(vegetationScore, MIN_VEG_SCORE)

\* mutant: the details report the canvas, the downscaled image
detailsOf_canvas(image, f, vegetationScore) ==
    [width |-> canvasWidth(image), height |-> canvasHeight(image),
     sizeMB |-> sizeMBOf(f), type |-> f.type, vegetationScore |-> vegetationScore]

\* { width: img.width, height: img.height, sizeMB, type: file.type, vegetationScore }
detailsOf(image, f, vegetationScore) ==
    [width |-> image.width, height |-> image.height, sizeMB |-> sizeMBOf(f),
     type |-> f.type, vegetationScore |-> vegetationScore]

\* line 268
notAnImageVerdict == [ok |-> FALSE, reason |-> NotAnImageReason]

\* line 270
tooLargeVerdict(f) == [ok |-> FALSE, reason |-> TooLargeReason(sizeMBOf(f))]

\* mutant: the too-small rejection reports the dimensions in a details block
tooSmallVerdict_details(image) ==
    [ok |-> FALSE, reason |-> TooSmallReason(image),
     details |-> [width |-> image.width, height |-> image.height]]

\* line 276
tooSmallVerdict(image) == [ok |-> FALSE, reason |-> TooSmallReason(image)]

\* lines 280-284
lowVegetationVerdict(image, f, vegetationScore) ==
    [ok |-> FALSE, reason |-> LowVegetationReason,
     details |-> detailsOf(image, f, vegetationScore)]

\* line 286
acceptedVerdict(image, f, vegetationScore) ==
    [ok |-> TRUE, details |-> detailsOf(image, f, vegetationScore)]

(***************************************************************************)
(* The disease table and getRandomDisease.                                 *)
(***************************************************************************)
\* a Disease, with the names of its treatments
EarlyBlight ==
    [name |-> "Early Blight", confidence |-> 92, severity |-> "Medium",
     treatments |-> <<"Balanced NPK (10-10-10)", "Chlorothalonil Fungicide", "Neem Oil">>]

BlastDisease ==
    [name |-> "Blast Disease", confidence |-> 87, severity |-> "High",
     treatments |-> <<"Potassium Chloride", "Tricyclazole", "Silicon Fertilizer">>]

LateBlight ==
    [name |-> "Late Blight", confidence |-> 94, severity |-> "High",
     treatments |-> <<"Calcium Nitrate", "Metalaxyl + Mancozeb", "Copper Oxychloride">>]

\* the record the function builds when the table has no list for the crop
FungalLeafSpot ==
    [name |-> "Fungal Leaf Spot", confidence |-> 78, severity |-> "Medium",
     treatments |-> <<"Balanced NPK (15-15-15)", "Copper-based Fungicide", "Compost Tea">>]

DISEASE_DATABASE ==
    [Tomato |-> <<EarlyBlight>>, Rice |-> <<BlastDisease>>, Potato |-> <<LateBlight>>]

CROP_TYPES ==
    {"Rice", "Wheat", "Corn", "Tomato", "Potato", "Cotton", "Soybean",
     "Sugarcane", "Banana", "Apple", "Grapes", "Citrus", "Other"}

Undefined == [undefined |-> TRUE]

\* DISEASE_DATABASE is an object literal: a key it does not own is looked up
\* in Object.prototype, whose members are functions (with a length, the
\* number of their parameters) and __proto__, Object.prototype itself.
PrototypeFunctions ==
    {<<"constructor", 1>>, <<"hasOwnProperty", 1>>, <<"isPrototypeOf", 1>>,
     <<"propertyIsEnumerable", 1>>, <<"toString", 0>>, <<"valueOf", 0>>,
     <<"toLocaleString", 0>>, <<"__defineGetter__", 2>>, <<"__defineSetter__", 2>>,
     <<"__lookupGetter__", 1>>, <<"__lookupSetter__", 1>>}

\* DISEASE_DATABASE[key]
propertyOf(key) ==
    IF key \in DOMAIN DISEASE_DATABASE
    THEN [array |-> DISEASE_DATABASE[key]]
    ELSE IF \E p \in PrototypeFunctions : p[1] = key
    THEN [function |-> key,
          length |-> (CHOOSE p \in PrototypeFunctions : p[1] = key)[2]]
    ELSE IF key = "__proto__"
    THEN [object |-> "Object.prototype"]
    ELSE Undefined

\* `diseases && diseases.length > 0`; the length of an object without one is
\* undefined, and undefined > 0 is false
truthyAndNonEmpty(diseases) ==
    /\ diseases # Undefined
    /\ \/ "array" \in DOMAIN diseases /\ Len(diseases.array) > 0
       \/ "length" \in DOMAIN diseases /\ diseases.length > 0

\* Math.random() returns random / RandSteps, a number in [0, 1)
RandSteps == 4

\* Math.floor(Math.random() * length)
randomIndex(random, length) == (random * length) \div RandSteps

\* diseases[index]: a function has no indexed properties
elementOf(diseases, index) ==
    IF "array" \in DOMAIN diseases /\ index < Len(diseases.array)
    THEN diseases.array[index + 1]
    ELSE Undefined

lengthOf(diseases) ==
    IF "array" \in DOMAIN diseases THEN Len(diseases.array) ELSE diseases.length

getRandomDisease(crop, random) ==
    LET diseases == propertyOf(crop)
    IN  IF truthyAndNonEmpty(diseases)
        THEN elementOf(diseases, randomIndex(random, lengthOf(diseases)))
        ELSE FungalLeafSpot

\* the arguments explored: the crops of the select boxes, '', the names
\* Object.prototype defines, and two more strings
CropArgs ==
    CROP_TYPES \cup {"", "tomato", "Mango", "__proto__"}
        \cup {p[1] : p \in PrototypeFunctions}

(***************************************************************************)
(* The App before the first user action.                                   *)
(***************************************************************************)
Null == [null |-> TRUE]

NoCall == [none |-> TRUE]

\* line 288
decodeFailedVerdict == [ok |-> FALSE, reason |-> DecodeFailedReason]

Init ==
    /\ pc = "idle"
    /\ file = NoFile
    /\ load = "none"
    /\ img = NoImg
    /\ canvas = NoCanvas
    /\ score = NoScore
    /\ verdict = NoVerdict
    /\ blobUrl = "none"
    /\ created = 0
    /\ revoked = 0
    /\ loads = 0
    /\ scored = 0
    /\ log = <<>>
    /\ selectedImage = Null
    /\ symptoms = ""
    /\ cropType = ""
    /\ analysis = Null
    /\ isAnalyzing = FALSE
    /\ currentStep = "home"
    /\ analysisMode = "null"
    /\ errorMsg = Null
    /\ infoMsg = Null
    /\ imagePreview = Null
    /\ readers = EmptyBag
    /\ tasks = <<>>
    /\ lastReturn = Null
    /\ sinceReset = FALSE
    /\ diseaseCall = NoCall


\* mutant: the size is checked before the media type
ValidateImage_sizeFirst ==
    /\ pc = "idle"
    /\ \E f \in Files :
        /\ file' = f
        /\ IF tooLarge(f)
           THEN /\ verdict' = tooLargeVerdict(f)
                /\ log' = <<"size">>
                /\ pc' = "done"
                /\ UNCHANGED <<load, blobUrl, created, loads>>
           ELSE IF notAnImage(f)
           THEN /\ verdict' = notAnImageVerdict
                /\ log' = <<"size", "type">>
                /\ pc' = "done"
                /\ UNCHANGED <<load, blobUrl, created, loads>>
           ELSE /\ blobUrl' = "live"
                /\ created' = created + 1
                /\ load' = "pending"
                /\ loads' = loads + 1
                /\ log' = <<"size", "type", "decode">>
                /\ pc' = "loading"
                /\ UNCHANGED verdict
    /\ UNCHANGED <<img, canvas, score, revoked, scored>>
    /\ UNCHANGED <<appVars, diseaseCall>>

\* validateImage(f), lines 267-274, up to the await of loadImageFromBlob
ValidateImage ==
    /\ pc = "idle"
    /\ \E f \in Files :
        /\ file' = f
        /\ IF notAnImage(f)
           THEN /\ verdict' = notAnImageVerdict
                /\ log' = <<"type">>
                /\ pc' = "done"
                /\ UNCHANGED <<load, blobUrl, created, loads>>
           ELSE IF tooLarge(f)
           THEN /\ verdict' = tooLargeVerdict(f)
                /\ log' = <<"type", "size">>
                /\ pc' = "done"
                /\ UNCHANGED <<load, blobUrl, created, loads>>
           ELSE /\ blobUrl' = "live"
                /\ created' = created + 1
                /\ load' = "pending"
                /\ loads' = loads + 1
                /\ log' = <<"type", "size", "decode">>
                /\ pc' = "loading"
                /\ UNCHANGED verdict
    /\ UNCHANGED <<img, canvas, score, revoked, scored>>
    /\ UNCHANGED <<appVars, diseaseCall>>

\* the finally block, line 290
Revoke ==
    /\ blobUrl' = "revoked"
    /\ revoked' = revoked + 1

\* loadImageFromBlob resolves (img.onload, line 236); lines 275-286 and the
\* finally block run
ImgOnload ==
    /\ pc = "loading"
    /\ load' = "loaded"
    /\ \E d \in ImgDims :
        LET image == [width |-> d[1], height |-> d[2]] IN
        /\ img' = image
        /\ IF tooSmall(image)
           THEN /\ verdict' = tooSmallVerdict(image)
                /\ log' = log \o <<"dimensions">>
                /\ UNCHANGED <<canvas, score, scored>>
           ELSE \E c \in {[ctx |-> FALSE]} \cup [ctx : {TRUE}, raster : Rasters] :
                LET vegetationScore ==
                        computeVegetationScore(image, c.ctx,
                                               IF c.ctx THEN c.raster ELSE NoCanvas)
                IN  /\ canvas' = c
                    /\ score' = vegetationScore
                    /\ scored' = scored + 1
                    /\ log' = log \o <<"dimensions", "vegetation">>
                    /\ IF lowVegetation(vegetationScore)
                       THEN verdict' = lowVegetationVerdict(image, file, vegetationScore)
                       ELSE verdict' = acceptedVerdict(image, file, vegetationScore)
    /\ Revoke
    /\ pc' = "done"
    /\ UNCHANGED <<file, created, loads>>
    /\ UNCHANGED <<appVars, diseaseCall>>

\* mutant: the URL is revoked at the end of the try block, not in a finally
ImgOnerror_leak ==
    /\ pc = "loading"
    /\ load' = "error"
    /\ verdict' = decodeFailedVerdict
    /\ pc' = "done"
    /\ UNCHANGED <<file, img, canvas, score, blobUrl, created, revoked, loads,
                   scored, log>>
    /\ UNCHANGED <<appVars, diseaseCall>>

\* mutant: a failed load is tried once more before giving up
ImgOnerror_retry ==
    /\ pc = "loading"
    /\ IF loads < 2
       THEN /\ loads' = loads + 1
            /\ UNCHANGED <<pc, load, verdict, blobUrl, revoked>>
       ELSE /\ load' = "error"
            /\ verdict' = decodeFailedVerdict
            /\ Revoke
            /\ pc' = "done"
            /\ UNCHANGED loads
    /\ UNCHANGED <<file, img, canvas, score, created, scored, log>>
    /\ UNCHANGED <<appVars, diseaseCall>>

\* loadImageFromBlob rejects (img.onerror, line 237); the catch block, line
\* 288, and the finally block run
ImgOnerror ==
    /\ pc = "loading"
    /\ load' = "error"
    /\ verdict' = decodeFailedVerdict
    /\ Revoke
    /\ pc' = "done"
    /\ UNCHANGED <<file, img, canvas, score, created, loads, scored, log>>
    /\ UNCHANGED <<appVars, diseaseCall>>

\* the promise validateImage returned resolves with the verdict; the next
\* validation starts from a clean slate
Deliver ==
    /\ pc = "done"
    /\ pc' = "idle"
    /\ file' = NoFile
    /\ load' = "none"
    /\ img' = NoImg
    /\ canvas' = NoCanvas
    /\ score' = NoScore
    /\ verdict' = NoVerdict
    /\ blobUrl' = "none"
    /\ created' = 0
    /\ revoked' = 0
    /\ loads' = 0
    /\ scored' = 0
    /\ log' = <<>>
    /\ UNCHANGED <<appVars, diseaseCall>>

Next == ValidateImage \/ ImgOnload \/ ImgOnerror \/ Deliver

Spec == Init /\ [][Next]_vars

(***************************************************************************)
(* An exception inside computeVegetationScore.  After a successful load    *)
(* the canvas calls of lines 243-252 are not expected to throw; the try    *)
(* block of validateImage covers them all the same, and SpecWithErrors     *)
(* lets them throw to exercise the catch block on that path too.           *)
(***************************************************************************)
ScoreThrew == [threw |-> TRUE]

\* mutant: no catch block, the exception leaves validateImage (the finally
\* block still runs) and the promise rejects
ImgOnloadScoreThrows_uncaught ==
    /\ pc = "loading"
    /\ load' = "loaded"
    /\ \E d \in ImgDims :
        LET image == [width |-> d[1], height |-> d[2]] IN
        /\ ~tooSmall(image)
        /\ img' = image
    /\ canvas' = ScoreThrew
    /\ scored' = scored + 1
    /\ log' = log \o <<"dimensions", "vegetation">>
    /\ Revoke
    /\ pc' = "rejected"
    /\ UNCHANGED <<file, score, verdict, created, loads>>
    /\ UNCHANGED <<appVars, diseaseCall>>

\* img.onload, the dimension check passes, computeVegetationScore throws:
\* the catch block, line 288, and the finally block run
ImgOnloadScoreThrows ==
    /\ pc = "loading"
    /\ load' = "loaded"
    /\ \E d \in ImgDims :
        LET image == [width |-> d[1], height |-> d[2]] IN
        /\ ~tooSmall(image)
        /\ img' = image
    /\ canvas' = ScoreThrew
    /\ scored' = scored + 1
    /\ log' = log \o <<"dimensions", "vegetation">>
    /\ verdict' = decodeFailedVerdict
    /\ Revoke
    /\ pc' = "done"
    /\ UNCHANGED <<file, score, created, loads>>
    /\ UNCHANGED <<appVars, diseaseCall>>

NextWithErrors ==
    ValidateImage \/ ImgOnload \/ ImgOnerror \/ Deliver \/ ImgOnloadScoreThrows

SpecWithErrors == Init /\ [][NextWithErrors]_vars

(***************************************************************************)
(* getRandomDisease on its own: any argument, any draw of Math.random.     *)
(***************************************************************************)
GetRandomDisease ==
    /\ \E crop \in CropArgs, random \in 0 .. (RandSteps - 1) :
        diseaseCall' = [cropType |-> crop, random |-> random,
                        result |-> getRandomDisease(crop, random)]
    /\ UNCHANGED <<valVars, appVars>>

DiseaseNext == GetRandomDisease

DiseaseSpec == Init /\ [][DiseaseNext]_vars

(***************************************************************************)
(* The App: its handlers, ImageUpload, and the handleAnalyze calls.  A     *)
(* handler, or the part of handleAnalyze between two awaits, runs to       *)
(* completion, and its state updates are rendered together.                *)
(***************************************************************************)
\* a message shown in a banner (errorMsg, infoMsg), as opposed to null
Msg(text) == [text |-> text]

UploadHint ==
    "Upload a clear photo of a leaf or plant. Blurry or non-plant images will be rejected."

SavedMsg == "Analysis saved successfully!"

SaveFailedFallback == "Failed to save analysis to backend. Please try again."

WrongImageFallback == "Wrong image. Please upload a clear crop/leaf photo."

\* the files the user drops or picks; accept="image/*" does not stop a drop
\* of another kind of file
LeafPhoto == [name |-> "leaf.png", type |-> "image/png", size |-> 3 * BytesPerMB]

HugePhoto == [name |-> "field.jpg", type |-> "image/jpeg", size |-> 12897485]

Notes == [name |-> "notes.txt", type |-> "text/plain", size |-> 2048]

AppFiles == {LeafPhoto, HugePhoto, Notes}

\* what the select boxes and the textarea are set to
AppCrops == {"", "Tomato"}

AppSymptoms == {"", "yellow spots on the leaves"}

\* what a loaded image and its canvas turn out to be
AppDims == {<<120, 80>>, <<256, 131072>>}

AppCanvases == [ctx : {TRUE}, raster : {Uniform(Green), Uniform(Red)}]

\* what the backend and the network do
FetchFailure == "Failed to fetch"

JsonFailure == "Unexpected end of JSON input"

ErrorStatuses == {500}

ErrorTexts == {"Internal Server Error"}

\* handleAnalyze calls explored, and FileReaders under way at a time
MaxAnalyses == 2

MaxReaders == 2

\* a handleAnalyze call: what its closure captured, the await it stands at
\* (validating, delay, fetch, text, json) or ended, what it has done, and
\* whether it has run its setIsAnalyzing(false)
NewTask(mode, image, crop, at) ==
    [mode |-> mode, image |-> image, cropType |-> crop, at |-> at,
     verdict |-> NoVerdict, disease |-> Null, posted |-> FALSE, status |-> 0,
     cleared |-> FALSE]

\* rendering the results step with isLoading false reads disease.severity:
\* with a null disease the render throws and React unmounts the App
Mounted == ~(currentStep = "results" /\ ~isAnalyzing /\ analysis = Null)

\* ImageUpload keeps its state while the image step stays on screen and
\* starts afresh when the step is entered again; a FileReader that fires
\* after the unmount updates nothing
previewAfter(step) ==
    IF currentStep = "image" /\ step = "image" THEN imagePreview ELSE Null

readersAfter(step) ==
    IF currentStep = "image" /\ step = "image" THEN readers ELSE EmptyBag

\* `validation.reason ?? fallback`
reasonOr(v, fallback) == IF "reason" \in DOMAIN v THEN v.reason ELSE fallback

\* `err.message || fallback`
messageOr(message, fallback) == IF message = "" THEN fallback ELSE message

\* validateImage up to its first await: a verdict, or NoVerdict when the
\* image is being loaded
verdictBeforeLoad(f) ==
    IF notAnImage(f) THEN notAnImageVerdict
    ELSE IF tooLarge(f) THEN tooLargeVerdict(f)
    ELSE NoVerdict

\* validateImage once img.onload has fired
verdictOnLoad(f, image, c) ==
    IF tooSmall(image) THEN tooSmallVerdict(image)
    ELSE LET vegetationScore == computeVegetationScore(image, c.ctx, c.raster)
         IN  IF lowVegetation(vegetationScore)
             THEN lowVegetationVerdict(image, f, vegetationScore)
             ELSE acceptedVerdict(image, f, vegetationScore)

\* the verdicts a validation under way can end with
VerdictsAfterLoad(f) ==
    {decodeFailedVerdict}
        \cup {verdictOnLoad(f, [width |-> d[1], height |-> d[2]], c) :
                 d \in AppDims, c \in AppCanvases}

\* the same, for each file whose validation gets as far as loading the image
ValidationOutcomes ==
    [f \in {g \in AppFiles : verdictBeforeLoad(g) = NoVerdict} |-> VerdictsAfterLoad(f)]

startImageAnalysis ==
    /\ Mounted
    /\ currentStep = "home"
    /\ currentStep' = "image"
    /\ analysisMode' = "image"
    /\ errorMsg' = Null
    /\ infoMsg' = Msg(UploadHint)
    /\ imagePreview' = previewAfter("image")
    /\ readers' = readersAfter("image")
    /\ sinceReset' = FALSE
    /\ UNCHANGED <<selectedImage, symptoms, cropType, analysis, isAnalyzing, tasks, lastReturn>>
    /\ UNCHANGED <<valVars, diseaseCall>>

startTextAnalysis ==
    /\ Mounted
    /\ currentStep = "home"
    /\ currentStep' = "text"
    /\ analysisMode' = "text"
    /\ errorMsg' = Null
    /\ infoMsg' = Null
    /\ sinceReset' = FALSE
    /\ UNCHANGED <<selectedImage, symptoms, cropType, analysis, isAnalyzing,
                   imagePreview, readers, tasks, lastReturn>>
    /\ UNCHANGED <<valVars, diseaseCall>>

\* ImageUpload.handleFile (a drop or a pick), with handleImageSelect
handleFile ==
    /\ Mounted
    /\ currentStep = "image"
    /\ ~(selectedImage # Null /\ imagePreview # Null)
    /\ \E f \in AppFiles :
        IF startsWith(f.type, "image/")
        THEN /\ BagCardinality(readers) < MaxReaders
             /\ selectedImage' = f
             /\ errorMsg' = Null
             /\ infoMsg' = Null
             /\ readers' = readers (+) SetToBag({f})
        ELSE UNCHANGED <<selectedImage, errorMsg, infoMsg, readers>>
    /\ sinceReset' = FALSE
    /\ UNCHANGED <<symptoms, cropType, analysis, isAnalyzing, currentStep,
                   analysisMode, imagePreview, tasks, lastReturn>>
    /\ UNCHANGED <<valVars, diseaseCall>>

\* reader.onload of ImageUpload.handleFile
readerOnload ==
    /\ currentStep = "image"
    /\ \E f \in BagToSet(readers) :
        /\ imagePreview' = [dataUrlOf |-> f.name]
        /\ readers' = readers (-) SetToBag({f})
    /\ UNCHANGED <<selectedImage, symptoms, cropType, analysis, isAnalyzing,
                   currentStep, analysisMode, errorMsg, infoMsg, tasks, lastReturn,
                   sinceReset>>
    /\ UNCHANGED <<valVars, diseaseCall>>

\* ImageUpload.removeImage, with handleRemoveImage
removeImage ==
    /\ Mounted
    /\ currentStep = "image"
    /\ selectedImage # Null /\ imagePreview # Null
    /\ imagePreview' = Null
    /\ selectedImage' = Null
    /\ currentStep' = "image"
    /\ analysis' = Null
    /\ errorMsg' = Null
    /\ infoMsg' = Null
    /\ sinceReset' = FALSE
    /\ UNCHANGED <<symptoms, cropType, isAnalyzing, analysisMode, readers, tasks, lastReturn>>
    /\ UNCHANGED <<valVars, diseaseCall>>

\* the crop select of the image step (shown once an image is selected) and
\* of SymptomInput
setCropType ==
    /\ Mounted
    /\ \/ currentStep = "image" /\ selectedImage # Null
       \/ currentStep = "text"
    /\ \E crop \in AppCrops \ {cropType} : cropType' = crop
    /\ sinceReset' = FALSE
    /\ UNCHANGED <<selectedImage, symptoms, analysis, isAnalyzing, currentStep,
                   analysisMode, errorMsg, infoMsg, imagePreview, readers, tasks, lastReturn>>
    /\ UNCHANGED <<valVars, diseaseCall>>

\* the textarea of SymptomInput
setSymptoms ==
    /\ Mounted
    /\ currentStep = "text"
    /\ \E text \in AppSymptoms \ {symptoms} : symptoms' = text
    /\ sinceReset' = FALSE
    /\ UNCHANGED <<selectedImage, cropType, analysis, isAnalyzing, currentStep,
                   analysisMode, errorMsg, infoMsg, imagePreview, readers, tasks, lastReturn>>
    /\ UNCHANGED <<valVars, diseaseCall>>

\* 'Back to Analysis Options'
backToOptions ==
    /\ Mounted
    /\ currentStep \in {"image", "text"}
    /\ currentStep' = "home"
    /\ imagePreview' = previewAfter("home")
    /\ readers' = readersAfter("home")
    /\ sinceReset' = FALSE
    /\ UNCHANGED <<selectedImage, symptoms, cropType, analysis, isAnalyzing,
                   analysisMode, errorMsg, infoMsg, tasks, lastReturn>>
    /\ UNCHANGED <<valVars, diseaseCall>>

\* 'New Analysis', shown on the results step once analysis is set
resetAnalysis ==
    /\ Mounted
    /\ currentStep = "results"
    /\ analysis # Null
    /\ analysis' = Null
    /\ isAnalyzing' = FALSE
    /\ analysisMode' = "null"
    /\ currentStep' = "home"
    /\ selectedImage' = Null
    /\ symptoms' = ""
    /\ cropType' = ""
    /\ errorMsg' = Null
    /\ infoMsg' = Null
    /\ sinceReset' = TRUE
    /\ UNCHANGED <<imagePreview, readers, tasks, lastReturn>>
    /\ UNCHANGED <<valVars, diseaseCall>>

\* call i, whose record is task, returns (line 336, line 392, or an
\* exception): of the record only the fact that the call has ended stays,
\* and lastReturn tells what the call did
return(i, task, outcome, cleared) ==
    LET gone == [NewTask("", Null, "", "ended") EXCEPT !.cleared = cleared]
    IN  /\ tasks' = IF i > Len(tasks) THEN Append(tasks, gone)
                    ELSE [tasks EXCEPT ![i] = gone]
        /\ lastReturn' = [call |-> i, mode |-> task.mode, verdict |-> task.verdict,
                          disease |-> task.disease, posted |-> task.posted,
                          outcome |-> outcome, cleared |-> cleared]

\* mutant: the rejection branch lacks its `return`, and the call goes on to
\* the results step
afterVerdict_noReturn(i, v) ==
    /\ tasks' = [tasks EXCEPT ![i] = [@ EXCEPT !.verdict = v, !.at = "delay"]]
    /\ UNCHANGED lastReturn
    /\ IF ~v.ok
       THEN /\ isAnalyzing' = FALSE
            /\ analysis' = Null
            /\ errorMsg' = Msg(reasonOr(v, WrongImageFallback))
       ELSE UNCHANGED <<isAnalyzing, analysis, errorMsg>>
    /\ analysisMode' = "image"
    /\ currentStep' = "results"
    /\ imagePreview' = previewAfter("results")
    /\ readers' = readersAfter("results")

\* handleAnalyze('image') from the verdict v of validateImage to the return
\* of line 336 or to the await of the delay, lines 331-350
afterVerdict(i, v) ==
    IF ~v.ok
    THEN /\ return(i, [tasks[i] EXCEPT !.verdict = v], "rejected", TRUE)
         /\ isAnalyzing' = FALSE
         /\ analysis' = Null
         /\ currentStep' = "image"
         /\ errorMsg' = Msg(reasonOr(v, WrongImageFallback))
         /\ imagePreview' = previewAfter("image")
         /\ readers' = readersAfter("image")
         /\ UNCHANGED analysisMode
    ELSE /\ tasks' = [tasks EXCEPT ![i] = [@ EXCEPT !.verdict = v, !.at = "delay"]]
         /\ analysisMode' = "image"
         /\ currentStep' = "results"
         /\ imagePreview' = previewAfter("results")
         /\ readers' = readersAfter("results")
         /\ UNCHANGED <<isAnalyzing, analysis, errorMsg, lastReturn>>

\* 'Analyze Crop Image': handleAnalyze('image') up to its first await.  A
\* verdict reached without loading the image is awaited all the same, and
\* the rest of the handler runs before any other event.
analyzeImage ==
    /\ Mounted
    /\ currentStep = "image"
    /\ selectedImage # Null
    /\ ~isAnalyzing
    /\ Len(tasks) < MaxAnalyses
    /\ infoMsg' = Null
    /\ sinceReset' = FALSE
    /\ LET i == Len(tasks) + 1
           v == verdictBeforeLoad(selectedImage)
           task == NewTask("image", selectedImage, cropType, "validating")
       IN  IF v = NoVerdict
           THEN /\ tasks' = Append(tasks, task)
                /\ errorMsg' = Null
                /\ isAnalyzing' = TRUE
                /\ UNCHANGED <<analysis, currentStep, analysisMode, imagePreview,
                               readers, lastReturn>>
           ELSE /\ return(i, [task EXCEPT !.verdict = v], "rejected", TRUE)
                /\ isAnalyzing' = FALSE
                /\ analysis' = Null
                /\ currentStep' = "image"
                /\ errorMsg' = Msg(reasonOr(v, WrongImageFallback))
                /\ UNCHANGED <<analysisMode, imagePreview, readers>>
    /\ UNCHANGED <<selectedImage, symptoms, cropType>>
    /\ UNCHANGED <<valVars, diseaseCall>>

\* 'Analyze Symptoms': handleAnalyze('text') up to the await of the delay
analyzeText ==
    /\ Mounted
    /\ currentStep = "text"
    /\ symptoms # "" \/ cropType # ""
    /\ ~isAnalyzing
    /\ Len(tasks) < MaxAnalyses
    /\ errorMsg' = Null
    /\ infoMsg' = Null
    /\ isAnalyzing' = TRUE
    /\ analysisMode' = "text"
    /\ currentStep' = "results"
    /\ tasks' = Append(tasks, NewTask("text", selectedImage, cropType, "delay"))
    /\ sinceReset' = FALSE
    /\ UNCHANGED <<selectedImage, symptoms, cropType, analysis, imagePreview, readers,
                   lastReturn>>
    /\ UNCHANGED <<valVars, diseaseCall>>

\* the image of call i loads or fails to, validateImage returns, and
\* handleAnalyze goes on from line 331
validationSettlesOf(i) ==
    /\ i \in DOMAIN tasks
    /\ tasks[i].at = "validating"
    /\ \E v \in ValidationOutcomes[tasks[i].image] : afterVerdict(i, v)
    /\ UNCHANGED <<selectedImage, symptoms, cropType, infoMsg, sinceReset>>
    /\ UNCHANGED <<valVars, diseaseCall>>

validationSettles == \E i \in 1 .. MaxAnalyses : validationSettlesOf(i)

\* the 1200 ms timer of call i fires: lines 353-379, the pick of the disease
\* and the POST, up to the await of fetch.  Reading disease.name of an
\* undefined pick throws before the try block is entered.
delayElapsesOf(i) ==
    /\ i \in DOMAIN tasks
    /\ tasks[i].at = "delay"
    /\ \E random \in 0 .. (RandSteps - 1) :
        LET disease == getRandomDisease(tasks[i].cropType, random)
        IN  /\ analysis' = disease
            /\ IF disease = Undefined
               THEN return(i, [tasks[i] EXCEPT !.disease = disease], "threw", FALSE)
               ELSE /\ tasks' = [tasks EXCEPT ![i] =
                           [@ EXCEPT !.disease = disease, !.at = "fetch",
                                     !.posted = TRUE]]
                    /\ UNCHANGED lastReturn
    /\ UNCHANGED <<selectedImage, symptoms, cropType, isAnalyzing, currentStep,
                   analysisMode, errorMsg, infoMsg, imagePreview, readers, sinceReset>>
    /\ UNCHANGED <<valVars, diseaseCall>>

delayElapses == \E i \in 1 .. MaxAnalyses : delayElapsesOf(i)

\* mutant: the catch block returns, and line 392 is not reached
saveFailed_return(i, message) ==
    /\ errorMsg' = Msg(messageOr(message, SaveFailedFallback))
    /\ return(i, tasks[i], "saveFailed", FALSE)
    /\ UNCHANGED <<isAnalyzing, infoMsg>>

\* the catch block, lines 387-390, with the error's message, and line 392
saveFailed(i, message) ==
    /\ errorMsg' = Msg(messageOr(message, SaveFailedFallback))
    /\ isAnalyzing' = FALSE
    /\ return(i, tasks[i], "saveFailed", TRUE)
    /\ UNCHANGED infoMsg

\* the fetch of call i settles: it rejects, or resolves with a response,
\* whose body is then awaited (res.text() of line 381, res.json() of 385)
fetchSettlesOf(i) ==
    /\ i \in DOMAIN tasks
    /\ tasks[i].at = "fetch"
    /\ \/ saveFailed(i, FetchFailure)
       \/ /\ tasks' = [tasks EXCEPT ![i] = [@ EXCEPT !.at = "json", !.status = 200]]
          /\ UNCHANGED <<errorMsg, infoMsg, isAnalyzing, lastReturn>>
       \/ \E status \in ErrorStatuses :
           /\ tasks' = [tasks EXCEPT ![i] = [@ EXCEPT !.at = "text", !.status = status]]
           /\ UNCHANGED <<errorMsg, infoMsg, isAnalyzing, lastReturn>>
    /\ UNCHANGED <<selectedImage, symptoms, cropType, analysis, currentStep,
                   analysisMode, imagePreview, readers, sinceReset>>
    /\ UNCHANGED <<valVars, diseaseCall>>

fetchSettles == \E i \in 1 .. MaxAnalyses : fetchSettlesOf(i)

\* res.text() of a response that is not ok settles: line 383 throws
\* `Backend error: ${res.status} ${errorText}`, or the read itself failed
textSettlesOf(i) ==
    /\ i \in DOMAIN tasks
    /\ tasks[i].at = "text"
    /\ \/ \E errorText \in ErrorTexts :
           saveFailed(i, "Backend error: " \o ToString(tasks[i].status) \o " " \o errorText)
       \/ saveFailed(i, FetchFailure)
    /\ UNCHANGED <<selectedImage, symptoms, cropType, analysis, currentStep,
                   analysisMode, imagePreview, readers, sinceReset>>
    /\ UNCHANGED <<valVars, diseaseCall>>

textSettles == \E i \in 1 .. MaxAnalyses : textSettlesOf(i)

\* res.json() of an ok response settles: lines 386 and 392, or the body is
\* not JSON and the catch block runs
jsonSettlesOf(i) ==
    /\ i \in DOMAIN tasks
    /\ tasks[i].at = "json"
    /\ \/ /\ infoMsg' = Msg(SavedMsg)
          /\ isAnalyzing' = FALSE
          /\ return(i, tasks[i], "saved", TRUE)
          /\ UNCHANGED errorMsg
       \/ saveFailed(i, JsonFailure)
    /\ UNCHANGED <<selectedImage, symptoms, cropType, analysis, currentStep,
                   analysisMode, imagePreview, readers, sinceReset>>
    /\ UNCHANGED <<valVars, diseaseCall>>

jsonSettles == \E i \in 1 .. MaxAnalyses : jsonSettlesOf(i)

\* what call i does when the promise it awaits settles
resumeOf(i) ==
    \/ validationSettlesOf(i)
    \/ delayElapsesOf(i)
    \/ fetchSettlesOf(i)
    \/ textSettlesOf(i)
    \/ jsonSettlesOf(i)

AppNext ==
    \/ startImageAnalysis
    \/ startTextAnalysis
    \/ handleFile
    \/ readerOnload
    \/ removeImage
    \/ setCropType
    \/ setSymptoms
    \/ backToOptions
    \/ resetAnalysis
    \/ analyzeImage
    \/ analyzeText
    \/ validationSettles
    \/ delayElapses
    \/ fetchSettles
    \/ textSettles
    \/ jsonSettles

AppSpec == Init /\ [][AppNext]_vars

\* the validation, the delay, the POST and the reading of its response
\* each complete
FairAppSpec == AppSpec /\ \A i \in 1 .. MaxAnalyses : WF_vars(resumeOf(i))

(***************************************************************************)
(* The claims.  Each is stated on the file, the load outcome, the image    *)
(* and the score of the validation in progress, with the limits written    *)
(* out, not through the operators of the model above.                      *)
(***************************************************************************)
\* the declared media type starts with 'image/'
DeclaredImage == Len(file.type) >= 6 /\ SubSeq(file.type, 1, 6) = "image/"

\* the byte size is more than 10 MB
Over10MB == file.size > 10 * 1024 * 1024

Rejected == pc = "done" /\ verdict.ok = FALSE

\* C1: a file whose declared media type does not start with 'image/' is
\* rejected with reason exactly 'File is not an image.', whatever its size,
\* and no decode of it is attempted.
C1_NotAnImage ==
    (pc # "idle" /\ ~DeclaredImage) =>
        /\ pc = "done"
        /\ verdict = [ok |-> FALSE, reason |-> "File is not an image."]
        /\ loads = 0
        /\ load = "none"
        /\ img = NoImg

\* an oversized text file is rejected as not an image
C1_Witness ==
    /\ pc = "done"
    /\ file = [type |-> "video/image/png", size |-> 12897485]
    /\ verdict.reason = "File is not an image."

\* the reason of the size rejection: the size in MB to the nearest tenth
IsTooLargeReason(reason) ==
    \E n \in 0 .. 200 :
        /\ 2 * n * 1024 * 1024 - 20 * file.size <= 1024 * 1024
        /\ 20 * file.size - 2 * n * 1024 * 1024 <= 1024 * 1024
        /\ reason = "Image is too large (" \o ToString(n \div 10) \o "."
                        \o ToString(n % 10) \o " MB). Max 10 MB."

\* C2: a file with an image media type is rejected with 'Image is too large
\* (<size> MB). Max 10 MB.' if and only if its size is strictly more than
\* 10 MB; a file of exactly 10 MB passes the size check.
C2_TooLarge ==
    (pc # "idle" /\ DeclaredImage) =>
        /\ Over10MB => Rejected /\ IsTooLargeReason(verdict.reason) /\ loads = 0
        /\ ~Over10MB => "size" \in {log[i] : i \in DOMAIN log}
                        /\ loads = 1
                        /\ (Rejected => ~IsTooLargeReason(verdict.reason))

\* a file of one byte more than 10 MB is rejected, printed as 10.0 MB
C2_Witness ==
    /\ pc = "done"
    /\ file = [type |-> "image/png", size |-> 10485761]
    /\ verdict.reason = "Image is too large (10.0 MB). Max 10 MB."

\* a file of exactly 10 MB goes on to be decoded
C2_WitnessExactly10MB ==
    pc = "loading" /\ file.size = 10485760 /\ load = "pending"

\* C3: an image file of at most 10 MB whose load fires the error event is
\* rejected with reason exactly 'Could not read the image. Try another
\* file.'; the decode was attempted once and is not retried.
C3_DecodeFailed ==
    /\ loads <= 1
    /\ load = "error" =>
        /\ DeclaredImage /\ ~Over10MB
        /\ pc = "done"
        /\ verdict = [ok |-> FALSE,
                      reason |-> "Could not read the image. Try another file."]
        /\ loads = 1

C3_Witness ==
    /\ load = "error"
    /\ file = [type |-> "image/jpeg", size |-> 10485760]
    /\ verdict.reason = "Could not read the image. Try another file."

TooSmallReasonOf(w, h) ==
    "Image is too small (" \o ToString(w) \o "x" \o ToString(h)
        \o "). Minimum 256x256."

\* C4: a decoded image that passed the media-type and size checks is
\* rejected with 'Image is too small (WxH). Minimum 256x256.', W and H its
\* width and height, if and only if its width or its height is below 256.
C4_TooSmall ==
    load = "loaded" =>
        /\ DeclaredImage /\ ~Over10MB /\ pc = "done"
        /\ (img.width < 256 \/ img.height < 256) =>
               verdict = [ok |-> FALSE, reason |-> TooSmallReasonOf(img.width, img.height)]
        /\ (img.width >= 256 /\ img.height >= 256) =>
               /\ "reason" \in DOMAIN verdict =>
                      verdict.reason # TooSmallReasonOf(img.width, img.height)
               /\ scored = 1

\* a 256x255 image is too small
C4_Witness ==
    /\ load = "loaded"
    /\ img = [width |-> 256, height |-> 255]
    /\ verdict.reason = "Image is too small (256x255). Minimum 256x256."

\* a 256x256 image passes the dimension check
C4_WitnessExactly256 ==
    load = "loaded" /\ img = [width |-> 256, height |-> 256] /\ scored = 1

\* the image was decoded and is at least 256 pixels wide and high
LargeEnough == load = "loaded" /\ img.width >= 256 /\ img.height >= 256

\* the score is below 0.08 = 2/25
ScoreBelowThreshold == 25 * score.num < 2 * score.den

\* the details block of the validation in progress: the image's own width
\* and height, the size in MB (num / den = size / 2^20, den a divisor of
\* 2^20), the media type and the score
IsDetails(d) ==
    /\ DOMAIN d = {"width", "height", "sizeMB", "type", "vegetationScore"}
    /\ d.width = img.width
    /\ d.height = img.height
    /\ (1024 * 1024) % d.sizeMB.den = 0
    /\ d.sizeMB.num * ((1024 * 1024) \div d.sizeMB.den) = file.size
    /\ d.type = file.type
    /\ d.vegetationScore = score

\* C5: an image that passed the media-type, size, decode and dimension
\* checks is rejected if and only if its vegetation score is strictly below
\* 0.08; the rejection carries the 'Wrong image' reason and a details block
\* with width, height, sizeMB, media type and the computed score.
C5_LowVegetation ==
    LargeEnough =>
        /\ pc = "done" /\ scored = 1
        /\ verdict.ok = FALSE <=> ScoreBelowThreshold
        /\ verdict.ok = FALSE =>
            /\ DOMAIN verdict = {"ok", "reason", "details"}
            /\ verdict.reason =
                   "Wrong image: looks unlike a crop/leaf. Please upload a clear leaf/plant photo."
            /\ IsDetails(verdict.details)

\* 799 green samples of 10000: just below the threshold, rejected
C5_Witness ==
    /\ LargeEnough
    /\ score = [num |-> 799, den |-> 10000]
    /\ verdict.ok = FALSE
    /\ verdict.details.vegetationScore = [num |-> 799, den |-> 10000]

\* 800 green samples of 10000: a score of exactly 0.08 is accepted
C5_WitnessExactlyThreshold ==
    LargeEnough /\ score = [num |-> 2, den |-> 25] /\ verdict.ok = TRUE

\* C6: the verdict is accepted if and only if all five checks pass (image
\* media type, size <= 10 MB, decodable, width and height >= 256, score >=
\* 0.08), and its details carry the image's original width and height, its
\* sizeMB, its media type and the computed score.
C6_Accepted ==
    pc = "done" =>
        /\ verdict.ok = TRUE <=>
               /\ DeclaredImage
               /\ ~Over10MB
               /\ LargeEnough
               /\ scored = 1
               /\ ~ScoreBelowThreshold
        /\ verdict.ok = TRUE =>
               /\ DOMAIN verdict = {"ok", "details"}
               /\ IsDetails(verdict.details)

\* the 5000x5000, 3 MB, uniformly green PNG of the spec's example: the
\* canvas is 512x512, the details say 5000x5000
C6_Witness ==
    /\ pc = "done"
    /\ verdict =
           [ok |-> TRUE,
            details |-> [width |-> 5000, height |-> 5000,
                         sizeMB |-> [num |-> 3, den |-> 1], type |-> "image/png",
                         vegetationScore |-> [num |-> 1, den |-> 1]]]
    /\ canvasWidth(img) = 512

ChecksInOrder == <<"type", "size", "decode", "dimensions", "vegetation">>

\* the earliest check the validation in progress fails, "none" if it fails none
FirstFailure ==
    IF ~DeclaredImage THEN "type"
    ELSE IF Over10MB THEN "size"
    ELSE IF load = "error" THEN "decode"
    ELSE IF img.width < 256 \/ img.height < 256 THEN "dimensions"
    ELSE IF ScoreBelowThreshold THEN "vegetation"
    ELSE "none"

ReasonOf(check) ==
    CASE check = "type" -> "File is not an image."
      [] check = "size" -> verdict.reason
      [] check = "decode" -> "Could not read the image. Try another file."
      [] check = "dimensions" -> TooSmallReasonOf(img.width, img.height)
      [] check = "vegetation" ->
             "Wrong image: looks unlike a crop/leaf. Please upload a clear leaf/plant photo."

\* C7: the checks run in the order media type, size, decode, dimensions,
\* vegetation score and stop at the first failure: the reason is that of the
\* earliest failing check, the image is never decoded when the media-type or
\* size check fails, and the score is never computed when the dimension
\* check fails.
C7_OrderAndShortCircuit ==
    /\ log = SubSeq(ChecksInOrder, 1, Len(log))
    /\ pc = "done" =>
        /\ FirstFailure = "none" => verdict.ok = TRUE /\ log = ChecksInOrder
        /\ FirstFailure # "none" =>
            /\ verdict.ok = FALSE
            /\ log[Len(log)] = FirstFailure
            /\ verdict.reason = ReasonOf(FirstFailure)
            /\ FirstFailure = "size" => IsTooLargeReason(verdict.reason)
        /\ FirstFailure \in {"type", "size"} => loads = 0 /\ load = "none"
        /\ FirstFailure \in {"type", "size", "decode", "dimensions"} =>
               scored = 0 /\ score = NoScore

\* a file that fails both the media-type and the size check gets the reason
\* of the media-type check, and only that check ran
C7_Witness ==
    /\ pc = "done"
    /\ file = [type |-> "text/plain", size |-> 12897485]
    /\ log = <<"type">>
    /\ verdict.reason = "File is not an image."

\* a too-small image: four checks ran, no score was computed
C7_WitnessTooSmall ==
    /\ pc = "done"
    /\ img = [width |-> 5000, height |-> 100]
    /\ log = <<"type", "size", "decode", "dimensions">>
    /\ scored = 0

\* every pixel of the raster has alpha below 50
AllTransparent(raster) ==
    /\ (raster.leadLen > 0 => raster.lead[4] < 50)
    /\ raster.rest[4] < 50

\* every pixel of the raster is the colour c
AllOf(raster, c) ==
    /\ (raster.leadLen > 0 => raster.lead = c)
    /\ raster.rest = c

HasRaster == scored = 1 /\ canvas.ctx

\* C8: computeVegetationScore returns a value in [0, 1]; a raster whose
\* pixels all have alpha < 50 scores 0, and validateImage rejects it with
\* the low-vegetation reason.
C8_ScoreRange ==
    scored = 1 =>
        /\ score.den > 0 /\ 0 <= score.num /\ score.num <= score.den
        /\ (canvas.ctx /\ AllTransparent(canvas.raster)) =>
            /\ score.num = 0
            /\ verdict.ok = FALSE
            /\ verdict.reason =
                   "Wrong image: looks unlike a crop/leaf. Please upload a clear leaf/plant photo."

\* a raster of green pixels of alpha 49 scores 0 and is rejected
C8_Witness ==
    /\ HasRaster
    /\ canvas.raster.rest = <<0, 200, 0, 49>>
    /\ canvas.raster.leadLen = 0
    /\ score.num = 0
    /\ verdict.ok = FALSE

\* C9: a raster of any dimensions whose pixels are all RGBA (0, 200, 0, 255)
\* scores exactly 1 and passes the threshold; one whose pixels are all
\* RGBA (200, 50, 50, 255) scores exactly 0 and is rejected with the
\* 'Wrong image' reason.
C9_UniformRasters ==
    HasRaster =>
        /\ AllOf(canvas.raster, <<0, 200, 0, 255>>) =>
               /\ score = [num |-> 1, den |-> 1]
               /\ verdict.ok = TRUE
        /\ AllOf(canvas.raster, <<200, 50, 50, 255>>) =>
               /\ score = [num |-> 0, den |-> 1]
               /\ verdict.ok = FALSE
               /\ verdict.reason =
                      "Wrong image: looks unlike a crop/leaf. Please upload a clear leaf/plant photo."

\* a uniformly green 256x131072 image, drawn on a 1x512 canvas, scores 1
C9_Witness ==
    /\ HasRaster
    /\ AllOf(canvas.raster, <<0, 200, 0, 255>>)
    /\ img = [width |-> 256, height |-> 131072]
    /\ canvasWidth(img) * canvasHeight(img) = 512
    /\ score = [num |-> 1, den |-> 1]
    /\ verdict.ok = TRUE

\* a uniformly red 561x561 image scores 0 and is rejected
C9_WitnessRed ==
    /\ HasRaster
    /\ AllOf(canvas.raster, <<200, 50, 50, 255>>)
    /\ img = [width |-> 561, height |-> 561]
    /\ score.num = 0
    /\ verdict.ok = FALSE

\* C10: a verdict is either accepted (ok = true, no reason, details with a
\* vegetationScore) or rejected (ok = false, a non-empty reason); a rejected
\* verdict carries details only when it is the low-vegetation rejection, and
\* any vegetationScore present lies in [0, 1].
C10_VerdictShape ==
    pc = "done" =>
        /\ \/ /\ verdict.ok = TRUE
              /\ DOMAIN verdict = {"ok", "details"}
              /\ "vegetationScore" \in DOMAIN verdict.details
           \/ /\ verdict.ok = FALSE
              /\ "reason" \in DOMAIN verdict
              /\ DOMAIN verdict \subseteq {"ok", "reason", "details"}
              /\ verdict.reason # ""
              /\ "details" \in DOMAIN verdict <=>
                     verdict.reason =
                         "Wrong image: looks unlike a crop/leaf. Please upload a clear leaf/plant photo."
        /\ ("details" \in DOMAIN verdict
                /\ "vegetationScore" \in DOMAIN verdict.details) =>
               LET v == verdict.details.vegetationScore
               IN  v.den > 0 /\ 0 <= v.num /\ v.num <= v.den

\* the low-vegetation rejection: rejected, with details and a score of 0
C10_Witness ==
    /\ pc = "done"
    /\ verdict.ok = FALSE
    /\ "details" \in DOMAIN verdict
    /\ verdict.details.vegetationScore = [num |-> 0, den |-> 1]
    /\ canvas = [ctx |-> FALSE]

\* C11: the promise validateImage returns always resolves with a verdict and
\* never rejects: an error raised by the image load or by the computation
\* of the vegetation score ends in the rejected verdict 'Could not read the
\* image. Try another file.'
C11_NeverRejects ==
    /\ pc \in {"idle", "loading", "done"}
    /\ pc = "done" => "ok" \in DOMAIN verdict
    /\ (load = "error" \/ canvas = ScoreThrew) =>
        /\ pc = "done"
        /\ verdict = [ok |-> FALSE,
                      reason |-> "Could not read the image. Try another file."]

\* computeVegetationScore threw on a 300x300 image
C11_Witness ==
    /\ pc = "done"
    /\ canvas = ScoreThrew
    /\ img = [width |-> 300, height |-> 300]
    /\ verdict.reason = "Could not read the image. Try another file."

\* C15: validateImage creates an object URL only once the media-type and
\* size checks have passed; on every path that follows (too small, low
\* vegetation, accepted, load or scoring error) that URL has been revoked
\* exactly once when the verdict is about to be delivered; no URL is created
\* on the media-type and size rejection paths.
C15_UrlReleased ==
    /\ created <= 1
    /\ revoked <= created
    /\ pc = "loading" =>
        /\ DeclaredImage /\ ~Over10MB
        /\ created = 1 /\ revoked = 0 /\ blobUrl = "live"
    /\ pc = "done" =>
        IF DeclaredImage /\ ~Over10MB
        THEN created = 1 /\ revoked = 1 /\ blobUrl = "revoked"
        ELSE created = 0 /\ revoked = 0 /\ blobUrl = "none"

\* the load failed, and the URL created for it has been revoked
C15_Witness ==
    /\ pc = "done"
    /\ load = "error"
    /\ created = 1
    /\ revoked = 1
    /\ blobUrl = "revoked"

\* the scoring threw, and the URL has been revoked
C15_WitnessScoreThrew ==
    /\ pc = "done"
    /\ canvas = ScoreThrew
    /\ created = 1
    /\ revoked = 1

\* the pixels of the canvas of the image being validated
TotalPixels == canvasWidth(img) * canvasHeight(img)

\* the stride in pixels, and the number of pixels 0, stride, 2 stride, ...
\* below TotalPixels
RefStride == IF TotalPixels \div 10000 >= 1 THEN TotalPixels \div 10000 ELSE 1

RefSamples == ((TotalPixels - 1) \div RefStride) + 1

\* how many of the sampled pixels lie in the leading run of the raster
RefLeadSamples ==
    LET inLead == (canvas.raster.leadLen + RefStride - 1) \div RefStride
    IN  IF inLead < RefSamples THEN inLead ELSE RefSamples

RefCounted(px) == px[4] >= 50

RefGreen(px) == 10 * px[2] > 11 * px[1] /\ 10 * px[2] > 11 * px[3] /\ px[2] > 60

\* the counted, and the green-dominant counted, samples of the raster
RefTotal ==
    (IF RefCounted(canvas.raster.lead) THEN RefLeadSamples ELSE 0)
        + (IF RefCounted(canvas.raster.rest) THEN RefSamples - RefLeadSamples ELSE 0)

RefGreenish ==
    (IF RefCounted(canvas.raster.lead) /\ RefGreen(canvas.raster.lead)
     THEN RefLeadSamples ELSE 0)
        + (IF RefCounted(canvas.raster.rest) /\ RefGreen(canvas.raster.rest)
           THEN RefSamples - RefLeadSamples ELSE 0)

\* C13: computeVegetationScore is the reference ratio over the sampled
\* pixels: samples with alpha < 50 count in neither numerator nor
\* denominator (alpha = 50 counts), a counted sample is green-dominant
\* exactly when g > 1.1 r, g > 1.1 b and g > 60 (g = 60 is not green, g equal
\* to 1.1 r is not green), the score is the green-dominant count over the
\* counted samples, and 0 when no sample is counted.
C13_ReferenceRatio ==
    HasRaster =>
        /\ score.den > 0
        /\ IF RefTotal = 0
           THEN score.num = 0
           ELSE score.num * RefTotal = RefGreenish * score.den
        /\ AllOf(canvas.raster, <<0, 200, 0, 49>>) => score.num = 0
        /\ AllOf(canvas.raster, <<0, 200, 0, 50>>) => score.num = score.den
        /\ AllOf(canvas.raster, <<0, 60, 0, 255>>) => score.num = 0
        /\ AllOf(canvas.raster, <<0, 61, 0, 255>>) => score.num = score.den
        /\ AllOf(canvas.raster, <<100, 110, 0, 255>>) => score.num = 0
        /\ AllOf(canvas.raster, <<100, 111, 0, 255>>) => score.num = score.den

\* 7192 transparent pixels, then green ones: of the 10000 samples of a
\* 300x300 image the 800 transparent ones are not counted, and the score is 1
C13_Witness ==
    /\ HasRaster
    /\ img = [width |-> 300, height |-> 300]
    /\ canvas.raster.lead = <<0, 0, 0, 0>>
    /\ canvas.raster.leadLen = 7192
    /\ canvas.raster.rest = <<0, 200, 0, 255>>
    /\ RefTotal = 9200
    /\ score = [num |-> 1, den |-> 1]

\* green with g = 60 everywhere scores 0
C13_WitnessFloor ==
    /\ HasRaster
    /\ AllOf(canvas.raster, <<0, 60, 0, 255>>)
    /\ score.num = 0

\* C14: the buffer is stepped through with stride
\* max(1, floor(totalPixels / 10000)): the samples are the pixels 0, stride,
\* 2 stride, ... and their number is at least min(totalPixels, 10000) and
\* below 20000, whatever the resolution of the image.
C14_SampleCount ==
    HasRaster =>
        \A total \in {TotalPixels} : \A stride \in {RefStride} :
            \A n \in {Cardinality(sampleOffsets(4 * total))} :
                /\ \A i \in sampleOffsets(4 * total) :
                       i % (4 * stride) = 0 /\ i < 4 * total
                /\ n = ((total - 1) \div stride) + 1
                /\ n >= (IF total < 10000 THEN total ELSE 10000)
                /\ n < 20000

\* a 5000x381 image is drawn on a canvas of 19968 pixels, all of them sampled
C14_Witness ==
    /\ HasRaster
    /\ img = [width |-> 5000, height |-> 381]
    /\ TotalPixels = 19968
    /\ Cardinality(sampleOffsets(4 * TotalPixels)) = 19968

\* a 256x131072 image is drawn on a canvas of 512 pixels
C14_WitnessSmall ==
    /\ HasRaster
    /\ TotalPixels = 512
    /\ Cardinality(sampleOffsets(4 * TotalPixels)) = 512

\* d is a Disease
IsDisease(d) ==
    /\ DOMAIN d = {"name", "confidence", "severity", "treatments"}
    /\ d.severity \in {"Low", "Medium", "High"}

\* C16: getRandomDisease(cropType) always returns a disease record: a member
\* of the crop's list when cropType is a key of DISEASE_DATABASE with a
\* non-empty list, and for every other cropType the fallback record 'Fungal
\* Leaf Spot' (confidence 78, severity Medium).
C16_AlwaysADisease ==
    diseaseCall # NoCall =>
        /\ IsDisease(diseaseCall.result)
        /\ diseaseCall.cropType = "Tomato" =>
               diseaseCall.result.name = "Early Blight"
        /\ diseaseCall.cropType = "Rice" =>
               diseaseCall.result.name = "Blast Disease"
        /\ diseaseCall.cropType = "Potato" =>
               diseaseCall.result.name = "Late Blight"
        /\ diseaseCall.cropType \notin {"Tomato", "Rice", "Potato"} =>
               /\ diseaseCall.result.name = "Fungal Leaf Spot"
               /\ diseaseCall.result.confidence = 78
               /\ diseaseCall.result.severity = "Medium"

\* the same for the crops the select boxes offer, and ''
C16_SelectableCrops ==
    (diseaseCall # NoCall /\ diseaseCall.cropType \in CROP_TYPES \cup {""}) =>
        C16_AlwaysADisease

\* the App as first rendered, and as resetAnalysis leaves it
InitialApp ==
    /\ currentStep = "home"
    /\ analysis = Null
    /\ ~isAnalyzing
    /\ analysisMode = "null"
    /\ selectedImage = Null
    /\ symptoms = ""
    /\ cropType = ""
    /\ errorMsg = Null
    /\ infoMsg = Null

AppTypeOK ==
    /\ currentStep \in {"home", "image", "text", "results"}
    /\ analysisMode \in {"null", "image", "text"}
    /\ isAnalyzing \in BOOLEAN
    /\ Len(tasks) <= MaxAnalyses

\* call i has got past the validation: it waits for the delay or the POST,
\* or has picked a disease or sent the POST
PastValidation(i) ==
    \/ tasks[i].at \in {"delay", "fetch", "text", "json"}
    \/ tasks[i].disease # Null
    \/ tasks[i].posted

\* call i returns in this step
Returns(i) ==
    /\ i \in DOMAIN tasks'
    /\ tasks'[i].at = "ended"
    /\ i \in DOMAIN tasks => tasks[i].at # "ended"

\* the validation of call i is over in this step
VerdictIn(i) ==
    /\ i \in DOMAIN tasks'
    /\ \/ i \notin DOMAIN tasks /\ tasks'[i].at = "ended"
       \/ i \in DOMAIN tasks /\ tasks[i].at = "validating"
                             /\ tasks'[i].at # "validating"

\* C12: in handleAnalyze('image') a rejected verdict never leads to the
\* results step: the handler ends with currentStep = 'image', analysis =
\* null, isAnalyzing = false and errorMsg the verdict's reason, and neither
\* picks a disease nor sends the POST; only an accepted verdict lets the
\* handler set currentStep = 'results' and go on to the analysis.
C12_RejectedStaysOnImage ==
    /\ [](\A i \in DOMAIN tasks :
            (tasks[i].mode = "image" /\ PastValidation(i)) =>
                /\ tasks[i].verdict # [pending |-> TRUE]
                /\ tasks[i].verdict.ok)
    /\ []((lastReturn # Null /\ lastReturn.outcome = "rejected") =>
            /\ lastReturn.mode = "image"
            /\ ~lastReturn.verdict.ok
            /\ lastReturn.disease = Null
            /\ ~lastReturn.posted)
    /\ [][\A i \in 1 .. MaxAnalyses :
            VerdictIn(i) =>
                IF Returns(i)
                THEN /\ lastReturn'.call = i
                     /\ lastReturn'.outcome = "rejected"
                     /\ currentStep' = "image"
                     /\ analysis' = Null
                     /\ ~isAnalyzing'
                     /\ errorMsg' = [text |-> lastReturn'.verdict.reason]
                ELSE /\ tasks'[i].verdict.ok
                     /\ tasks'[i].at = "delay"
                     /\ currentStep' = "results"]_vars

\* a low-vegetation verdict has put the user back on the image step
C12_Witness ==
    /\ Len(tasks) = 1
    /\ tasks[1].at = "ended"
    /\ lastReturn.mode = "image"
    /\ lastReturn.outcome = "rejected"
    /\ lastReturn.verdict.ok = FALSE
    /\ lastReturn.verdict.reason =
           "Wrong image: looks unlike a crop/leaf. Please upload a clear leaf/plant photo."
    /\ currentStep = "image"
    /\ analysis = Null
    /\ ~isAnalyzing
    /\ errorMsg = [text |-> lastReturn.verdict.reason]

\* an accepted verdict has led to the results step
C12_WitnessAccepted ==
    /\ Len(tasks) = 1
    /\ tasks[1].mode = "image"
    /\ tasks[1].at = "delay"
    /\ tasks[1].verdict.ok
    /\ currentStep = "results"

\* C17: whenever currentStep = 'results' and isAnalyzing = false, analysis is
\* not null, so AnalysisResults never renders the result view with a null
\* disease.
C17_ResultsHaveAnalysis ==
    (currentStep = "results" /\ ~isAnalyzing) => analysis # Null

\* C18: resetAnalysis returns the App to its initial state, and that state
\* stays until the user's next action: no completion of an analysis started
\* before the reset sets infoMsg, errorMsg or isAnalyzing afterwards.
C18_ResetStays == sinceReset => InitialApp

\* the calls whose validateImage is pending
Validating == {i \in DOMAIN tasks : tasks[i].at = "validating"}

\* C19: at most one image validation is in flight at any time: while a
\* validateImage call is pending isAnalyzing stays true, so that no second
\* validateImage call can start.
C19_OneValidation ==
    /\ Cardinality(Validating) <= 1
    /\ Validating # {} => isAnalyzing

C20_WitnessThrew ==
    /\ Len(tasks) = 1
    /\ lastReturn # Null
    /\ analysis # Null
    /\ lastReturn.outcome = "saveFailed"
    /\ ~isAnalyzing
    /\ errorMsg = [text |-> "Failed to fetch"]
    /\ analysis.name = "Fungal Leaf Spot"
    /\ currentStep = "results"

\* a rejected validation has cleared isAnalyzing
C20_WitnessRejected ==
    /\ Len(tasks) = 1
    /\ lastReturn # Null
    /\ lastReturn.outcome = "rejected"
    /\ tasks[1].cleared
    /\ ~isAnalyzing

\* the preview on screen: ImageUpload shows it when selectedImage and
\* imagePreview are both set
PreviewShown == selectedImage # Null /\ imagePreview # Null

\* C21: whenever ImageUpload displays a preview (selectedImage and
\* imagePreview both set), the preview data is that of the currently selected
\* file: no FileReader completion for a file that has since been removed or
\* replaced determines the preview shown.
C21_PreviewOfSelected ==
    PreviewShown => imagePreview = [dataUrlOf |-> selectedImage.name]

\* the part of C21 on other files: what is selected, previewed or being read
\* is always a file whose type starts with image/
C21_OnlyImages ==
    /\ selectedImage # Null => startsWith(selectedImage.type, "image/")
    /\ imagePreview # Null =>
        \E f \in AppFiles : /\ startsWith(f.type, "image/")
                            /\ imagePreview = [dataUrlOf |-> f.name]
    /\ \A f \in BagToSet(readers) : startsWith(f.type, "image/")

=============================================================================
